---- MODULE Spec2Model ----
(***************************************************************************)
(* Model of src/mongodb_monitor.py: MongoDBPollingMonitor and its          *)
(* EnhancedPollingMonitor variant polling a MongoDB collection, filtering  *)
(* fetched documents through processed_ids, and copying extracted text to  *)
(* the clipboard.                                                          *)
(*                                                                         *)
(* Time is the wall clock read by datetime.utcnow(), in whole seconds.     *)
(* An ObjectId is the pair (creation second, remaining bytes), encoded as  *)
(* second * RestBase + rest; ObjectId.from_datetime(t) is (second of t, 0).*)
(* The store and the clipboard are the environment: documents are inserted *)
(* by other programs (src/webapp/main.py, src/add_documents.py), queries   *)
(* and clipboard writes may fail.                                          *)
(***************************************************************************)
EXTENDS Integers, Sequences, FiniteSets, TLC

\* ---------------------------------------------------------------- bounds
\* Seconds the clock may advance past its initial value.
MaxTime == 1
\* Documents the collection may hold.
MaxDocs == 2
\* Distinct ObjectIds one creation second offers (the bytes after the timestamp).
MaxRest == 2
\* Loop threads one monitor instance may be given.
MaxThreads == 2
\* Characters of a text handed to preserve_code_formatting.
MaxText == 5
\* Fields of a document handed to extract_text_content.
MaxFields == 2

\* ------------------------------------------------------ program constants
\* timedelta(seconds=5) of start_monitoring.
GraceSeconds == 5
\* .limit(100) of get_new_documents.
FetchLimit == 100

RestBase == MaxRest + 1
T0 == GraceSeconds
Times == T0..(T0 + MaxTime)
Threads == 1..MaxThreads
\* self.last_check_time = None, stats['start_time'] = None
None == -1

\* ------------------------------------------------------------- documents
\* payload: what extract_text_content does on the document: returns text,
\* returns None (or an empty string), or raises.
\* type: the document's 'type' field ("code" as written by add_documents.py).
\* ts: the timestamp-like field the document carries: 'timestamp' (a float,
\* add_documents.py), 'created_at' (a datetime, webapp/main.py) or none.
\* A field the configured monitor never reads is held at one value: the base
\* monitor reads no 'type', the enhanced monitor no timestamp-like field, and
\* without a filter no field besides _id.
Shape(p, ty, ts) == [payload |-> p, type |-> ty, ts |-> ts]

DocShapes(v, flt) ==
    IF v = "base"
    THEN { Shape("text", "code", "none"), Shape("none", "code", "none"),
           Shape("raise", "code", "none"), Shape("text", "code", "created_at"),
           Shape("text", "code", "timestamp") }
    ELSE IF flt = {}
    THEN { Shape("text", "code", "none"), Shape("none", "code", "none"),
           Shape("raise", "code", "none") }
    ELSE { Shape("text", "code", "none"), Shape("none", "code", "none"),
           Shape("raise", "code", "none"), Shape("text", "other", "none") }

MkDoc(i, s) == [id |-> i, payload |-> s.payload, type |-> s.type, ts |-> s.ts]

\* ObjectId(sec, rest) and its generation time.
ObjectId(sec, rest) == sec * RestBase + rest
IdTime(i) == i \div RestBase
\* ObjectId.from_datetime: the timestamp's second, all other bytes zero.
FromDatetime(t) == t * RestBase

Ids(docs) == {d.id : d \in docs}
SeqIds(s) == [k \in 1..Len(s) |-> s[k].id]
Range(s) == {s[k] : k \in 1..Len(s)}

\* ------------------------------------------------------------------ text
\* A str is the sequence of its characters.
\* Characters str.splitlines() ends a line at; "\r" followed by "\n" is one end.
LineBreaks == {"\n", "\r", "\f"}
\* Characters str.rstrip() removes.
Whitespace == {" ", "\t", "\n", "\r", "\f"}

\* text.splitlines(), from position i on, cur being the line collected so far.
RECURSIVE SplitFrom(_, _, _)
SplitFrom(s, i, cur) ==
    IF i > Len(s) THEN (IF cur = <<>> THEN <<>> ELSE <<cur>>)
    ELSE IF s[i] \in LineBreaks
    THEN LET crlf == s[i] = "\r" /\ i < Len(s) /\ s[i + 1] = "\n"
         IN <<cur>> \o SplitFrom(s, IF crlf THEN i + 2 ELSE i + 1, <<>>)
    ELSE SplitFrom(s, i + 1, Append(cur, s[i]))

Splitlines(s) == SplitFrom(s, 1, <<>>)

\* Faulty variant: the line appended as it is.
KeepsLine(line) == line

\* line.rstrip()
RECURSIVE Rstrip(_)
Rstrip(line) ==
    IF line = <<>> THEN <<>>
    ELSE IF line[Len(line)] \in Whitespace THEN Rstrip(SubSeq(line, 1, Len(line) - 1))
    ELSE line

\* '\n'.join(lines)
RECURSIVE Join(_)
Join(lines) ==
    IF lines = <<>> THEN <<>>
    ELSE IF Len(lines) = 1 THEN lines[1]
    ELSE lines[1] \o <<"\n">> \o Join(Tail(lines))

\* preserve_code_formatting(text)
PreserveCodeFormatting(text) ==
    IF text = <<>> THEN <<>>
    ELSE LET lines == Splitlines(text)
         IN Join([k \in 1..Len(lines) |-> Rstrip(lines[k])])

\* The texts preserve_code_formatting is applied to: every text of up to
\* MaxText characters over Alphabet.
Alphabet == {"a", " ", "\t", "\n", "\r"}
Texts == UNION {[1..n -> Alphabet] : n \in 0..MaxText}

\* -------------------------------------------------------------- extraction
\* An Optional[str] is <<>> for None and <<s>> for the str s.
Absent == <<>>
Some(s) == <<s>>

\* A document handed to extract_text_content is the sequence of its fields
\* <<key, value>> in the dict's order, keys distinct. A value is a str, an int
\* or a nested document.
StrV(s) == [kind |-> "str", s |-> s, n |-> 0, fields |-> <<>>]
IntV(n) == [kind |-> "int", s |-> <<>>, n |-> n, fields |-> <<>>]
DocV(f) == [kind |-> "doc", s |-> <<>>, n |-> 0, fields |-> f]

HasKey(doc, key) == \E i \in 1..Len(doc) : doc[i][1] = key
Get(doc, key) == doc[CHOOSE i \in 1..Len(doc) : doc[i][1] = key][2]

\* Faulty variant: a field counts as soon as it is present.
AnyValue(v) == TRUE

\* "and document[field]": the value's truth value.
Truthy(v) ==
    CASE v.kind = "str" -> v.s # <<>>
      [] v.kind = "int" -> v.n # 0
      [] v.kind = "doc" -> v.fields # <<>>

\* str(document[field]) of a str or of an int of one digit.
PyStr(v) ==
    IF v.kind = "str" THEN v.s
    ELSE <<(<<"0", "1", "2", "3", "4", "5", "6", "7", "8", "9">>)[v.n + 1]>>

\* text_fields
TextFields == <<"text", "content", "code", "message", "body", "data", "value", "snippet">>

\* key.startswith('_'), for the keys of the documents considered
Underscored(key) == key \in {"_id", "_note"}

\* The positions of text_fields whose field the document has with a true value.
Hits(doc) ==
    {k \in 1..Len(TextFields) :
        HasKey(doc, TextFields[k]) /\ Truthy(Get(doc, TextFields[k]))}

\* Faulty variant: the last matching field of text_fields taken.
LastHit(doc) == CHOOSE k \in Hits(doc) : \A m \in Hits(doc) : m <= k

\* "for field in text_fields" returns at the first match.
FirstHit(doc) == CHOOSE k \in Hits(doc) : \A m \in Hits(doc) : k <= m

\* len(value) > 10
LongEnough(s) == Len(s) > 10

\* extract_text_content(document), and its second loop from field i on.
RECURSIVE ExtractTextContent(_)
RECURSIVE ScanFrom(_, _)
ExtractTextContent(doc) ==
    IF Hits(doc) # {}
    THEN Some(PreserveCodeFormatting(PyStr(Get(doc, TextFields[FirstHit(doc)]))))
    ELSE ScanFrom(doc, 1)

ScanFrom(doc, i) ==
    IF i > Len(doc) THEN Absent
    ELSE LET key == doc[i][1]
             v == doc[i][2]
         IN IF Underscored(key) THEN ScanFrom(doc, i + 1)
            ELSE IF v.kind = "str" /\ LongEnough(v.s)
            THEN Some(PreserveCodeFormatting(v.s))
            ELSE IF v.kind = "doc"
            THEN LET nested_text == ExtractTextContent(v.fields)
                 IN IF nested_text # Absent /\ nested_text # Some(<<>>)
                    THEN nested_text
                    ELSE ScanFrom(doc, i + 1)
            ELSE ScanFrom(doc, i + 1)

\* The documents extract_text_content is applied to: up to MaxFields fields
\* with distinct keys; an alias field holds a str or an int, any other field
\* may also hold a nested document of one field.
ShortText == <<"x">>
OtherText == <<"y">>
BlankText == <<" ">>
LongText == <<"l", "o", "n", "g", " ", " ", "s", "t", "r", "i", "n", "g", " ">>
LongBlank == <<" ", " ", " ", " ", " ", " ", " ", " ", " ", " ", " ">>
Scalars ==
    {StrV(<<>>), StrV(ShortText), StrV(OtherText), StrV(BlankText), StrV(LongText),
     StrV(LongBlank), IntV(0), IntV(7)}
Keys == {"text", "code", "message", "notes", "_note", "meta"}
Aliases == {TextFields[k] : k \in 1..Len(TextFields)}
NestedDocs ==
    {<<<<key, v>>>> : key \in {"text", "notes"},
                      v \in {StrV(<<>>), StrV(ShortText), StrV(LongText)}}
Values(key) ==
    IF key \in Aliases THEN Scalars ELSE Scalars \cup {DocV(f) : f \in NestedDocs}
Documents ==
    {doc \in UNION {[1..n -> {<<key, v>> : key \in Keys,
                                          v \in Scalars \cup {DocV(f) : f \in NestedDocs}}]
                       : n \in 0..MaxFields} :
        /\ \A i, j \in 1..Len(doc) : i # j => doc[i][1] # doc[j][1]
        /\ \A i \in 1..Len(doc) : doc[i][2] \in Values(doc[i][1])}

\* A call of one of the two functions on its own, and what it returned.
NoCall == [fn |-> "none", arg |-> <<>>]
Pending == [done |-> FALSE, value |-> <<>>]

VARIABLES
    call,             \* the function called on its own and its argument
    returned,         \* what the call returned
    content,          \* the fields of the documents whose fields are known, by _id
    variant,          \* "base": MongoDBPollingMonitor, "enhanced": EnhancedPollingMonitor
    filters,          \* self.filters: set of <<field, value>> pairs
    now,              \* the wall clock
    store,            \* the collection: set of documents
    client,           \* self.client: "none", "open", "closed"
    is_monitoring,    \* self.is_monitoring
    last_check_time,  \* self.last_check_time (None or a time)
    processed_ids,    \* self.processed_ids
    stats,            \* self.stats (enhanced)
    pc,               \* per loop thread: position in start_monitoring
    todo,             \* per loop thread: documents of this cycle still to process
    \* history variables
    inserted,         \* ids in the order their inserts reached the collection
    sink_log,         \* calls of copy_to_clipboard: <<[id, ok]>>
    admitted,         \* the non-empty results of get_new_documents, as id sequences
    skipped,          \* ids admitted in a batch that was aborted before reaching them
    owed,             \* ids inserted while Running, with a payload, not yet handed to the sink
    stop_called,      \* stop_monitoring was called from outside since the last start
    life              \* per loop thread: what its current lifecycle did

fn == <<call, returned>>

vars == <<call, returned, content, variant, filters, now, store, client, is_monitoring, last_check_time,
          processed_ids, stats, pc, todo, inserted, sink_log, admitted,
          skipped, owed, stop_called, life>>

monitor == <<client, is_monitoring, last_check_time, processed_ids, stats>>
config == <<variant, filters>>
history == <<inserted, sink_log, admitted, skipped, owed, stop_called, life>>

\* query: how the query of the thread's current poll cycle ended ("none" until
\* it ran).
NewLife == [conn |-> "none", entered |-> FALSE, cursor_init |-> FALSE, polled |-> FALSE,
            query |-> "none"]

Live(t) == pc[t] \notin {"idle", "done"}
InLoop(t) == pc[t] \in {"check", "fetch", "process", "advance", "sleep"}
Running == is_monitoring /\ \E t \in Threads : InLoop(t)

Init ==
    /\ call = NoCall
    /\ returned = Pending
    /\ content = <<>>
    /\ variant \in {"base", "enhanced"}
    /\ filters \in {{}, {<<"type", "code">>}}
    /\ (variant = "base" => filters = {})
    /\ now = T0
    /\ store = {}
    /\ client = "none"
    /\ is_monitoring = FALSE
    /\ last_check_time = None
    /\ processed_ids = {}
    /\ stats = [documents_processed |-> 0, texts_copied |-> 0, start_time |-> None]
    /\ pc = [t \in Threads |-> "idle"]
    /\ todo = [t \in Threads |-> <<>>]
    /\ inserted = <<>>
    /\ sink_log = <<>>
    /\ admitted = <<>>
    /\ skipped = {}
    /\ owed = {}
    /\ stop_called = FALSE
    /\ life = [t \in Threads |-> NewLife]

\* ------------------------------------------------------------ the store
Min(a, b) == IF a < b THEN a ELSE b

\* Documents in descending _id order: .sort('_id', -1).
RECURSIVE SortDesc(_)
SortDesc(docs) ==
    IF docs = {} THEN <<>>
    ELSE LET top == CHOOSE d \in docs : \A e \in docs : e.id <= d.id
         IN <<top>> \o SortDesc(docs \ {top})

\* reversed(list)
Reversed(docs) == [k \in 1..Len(docs) |-> docs[Len(docs) + 1 - k]]

\* .limit(n)
Limit(s, n) == SubSeq(s, 1, Min(n, Len(s)))

\* The value a document holds under a field, for the fields the monitors query.
\* 'timestamp' is time.time(), a number; 'created_at' is datetime.utcnow() taken
\* when the document was created, a date.
HasField(d, f) == (f = "_id") \/ (f = "type") \/ (d.ts = f)
FieldIsDate(d, f) == d.ts = f /\ f = "created_at"
FieldDate(d) == IdTime(d.id)

\* {field: {'$gt': t}} with t a datetime: only date values compare with a date.
GtDate(d, f, t) == FieldIsDate(d, f) /\ FieldDate(d) > t

\* {'_id': {'$gt': ObjectId.from_datetime(t)}}
GtObjectId(d, t) == d.id > FromDatetime(t)

TimestampFields == <<"timestamp", "created_at", "createdAt", "date_created", "_id">>

\* The field the base monitor bounds its query by: the first of
\* TimestampFields some document of the collection has, '_id' being last.
RECURSIVE QueryFieldFrom(_, _)
QueryFieldFrom(k, docs) ==
    LET f == TimestampFields[k]
    IN IF f = "_id" THEN f
       ELSE IF \E d \in docs : HasField(d, f) THEN f
       ELSE QueryFieldFrom(k + 1, docs)

\* MongoDBPollingMonitor.get_new_documents: the documents the query matches.
BaseQuery(docs, lct) ==
    IF lct = None THEN docs
    ELSE LET f == QueryFieldFrom(1, docs)
         IN IF f = "_id" THEN {d \in docs : GtObjectId(d, lct)}
            ELSE {d \in docs : GtDate(d, f, lct)}

\* A document satisfies the static filter mapping.
MatchesFilters(d, flt) == \A p \in flt : p[1] = "type" /\ d.type = p[2]

\* Faulty variant: the query built without self.filters.
UnfilteredQuery(docs, flt, lct) ==
    {d \in docs : lct = None \/ GtObjectId(d, lct)}

\* EnhancedPollingMonitor.get_new_documents: the documents the query matches.
EnhancedQuery(docs, flt, lct) ==
    {d \in docs : MatchesFilters(d, flt) /\ (lct = None \/ GtObjectId(d, lct))}

\* Faulty variant: the fetch sorted ascending, .sort('_id', 1).
FindAscending(docs) == Limit(Reversed(SortDesc(docs)), FetchLimit)

\* collection.find(query).sort('_id', -1).limit(100)
Find(docs) == Limit(SortDesc(docs), FetchLimit)

FetchNew(v, docs, flt, lct) ==
    Find(IF v = "base" THEN BaseQuery(docs, lct) ELSE EnhancedQuery(docs, flt, lct))

\* ------------------------------------------------------- the dedup filter
\* Faulty variant: the filter without its membership test.
AdmitsAlways(d, seen) == TRUE

\* if doc_id not in self.processed_ids
Admits(d, seen) == d.id \notin seen

\* Faulty variant: only documents with text remembered.
RemembersOnlyText(seen, docs) == seen \cup {d.id : d \in {e \in Range(docs) : e.payload = "text"}}

\* Faulty variant: the filter forgetting what it admitted.
NeverRemembers(seen, docs) == seen

\* self.processed_ids.add(doc_id), for every admitted document
Remember(seen, docs) == seen \cup Ids(Range(docs))

\* filtered_docs: the fetched documents not seen before, in fetched order.
FilterNew(fetched, seen) == SelectSeq(fetched, LAMBDA d : Admits(d, seen))

\* ------------------------------------------------------- the poll cycle
\* Faulty variant: the batch iterated as fetched, newest first.
KeepsFetchOrder(docs) == docs

\* poll_for_changes hands the batch to process_document oldest first.
ProcessingOrder(docs) == Reversed(docs)

\* ------------------------------------------------------------ environment
\* The wall clock advances.
Tick ==
    /\ now < T0 + MaxTime
    /\ now' = now + 1
    /\ UNCHANGED <<fn, content, config, store, monitor, pc, todo, history>>

\* The record is one the filtered query can return and extraction finds text in.
Deliverable(d) ==
    d.payload = "text" /\ (variant = "enhanced" => MatchesFilters(d, filters))

\* Another program inserts a document (collection.insert_one). Its ObjectId
\* carries the current second; ids of one second are in no particular order
\* (they come from different writers).
Insert ==
    /\ Cardinality(store) < MaxDocs
    /\ \E rest \in 1..MaxRest, s \in DocShapes(variant, filters) :
          LET d == MkDoc(ObjectId(now, rest), s)
          IN /\ d.id \notin Ids(store)
             /\ store' = store \cup {d}
             /\ inserted' = Append(inserted, d.id)
             /\ owed' = IF Running /\ Deliverable(d) THEN owed \cup {d.id} ELSE owed
    /\ UNCHANGED <<fn, content, config, now, monitor, pc, todo, sink_log, admitted,
                   skipped, stop_called, life>>

\* ------------------------------------------------------------- lifecycle
\* Faulty variant: the result of connect() ignored.
ConnectFailureContinues(ok) == "init"

\* start_monitoring: if not self.connect(): return
AfterConnect(ok) == IF ok THEN "init" ELSE "done"

\* start_monitoring is entered (inline, or as the target of the thread
\* start_monitoring_background creates). The enhanced monitor first records
\* stats['start_time'].
StartMonitoring(t) ==
    /\ pc[t] \in {"idle", "done"}
    /\ \A u \in Threads : u < t => Live(u)
    /\ pc' = [pc EXCEPT ![t] = "connect"]
    /\ todo' = [todo EXCEPT ![t] = <<>>]
    /\ stats' = IF variant = "enhanced" THEN [stats EXCEPT !.start_time = now] ELSE stats
    /\ life' = [life EXCEPT ![t] = NewLife]
    /\ stop_called' = FALSE
    /\ UNCHANGED <<fn, content, config, now, store, client, is_monitoring, last_check_time,
                   processed_ids, inserted, sink_log, admitted, skipped, owed>>

\* The caller keeps to one loop per instance: it starts a loop only when no
\* loop of the instance is executing.
NoLiveLoop == \A u \in Threads : ~Live(u)

\* connect(): MongoClient(...) and the ping succeed, or either one raises; the
\* exception is caught and connect returns False. self.client is assigned
\* before the ping.
Connect(t) ==
    /\ pc[t] = "connect"
    /\ \E ok \in BOOLEAN :
          /\ client' \in (IF ok THEN {"open"} ELSE {client, "open"})
          /\ pc' = [pc EXCEPT ![t] = AfterConnect(ok)]
          /\ life' = [life EXCEPT ![t].conn = IF ok THEN "ok" ELSE "failed"]
    /\ UNCHANGED <<fn, content, config, now, store, is_monitoring, last_check_time, processed_ids,
                   stats, todo, inserted, sink_log, admitted, skipped, owed, stop_called>>

\* self.is_monitoring = True; self.last_check_time = utcnow() - timedelta(seconds=5)
InitRun(t) ==
    /\ pc[t] = "init"
    /\ is_monitoring' = TRUE
    /\ last_check_time' = now - GraceSeconds
    /\ pc' = [pc EXCEPT ![t] = "check"]
    /\ life' = [life EXCEPT ![t].entered = TRUE, ![t].cursor_init = TRUE]
    /\ UNCHANGED <<fn, content, config, now, store, client, processed_ids, stats, todo, inserted,
                   sink_log, admitted, skipped, owed, stop_called>>

\* while self.is_monitoring:
LoopCheck(t) ==
    /\ pc[t] = "check"
    /\ pc' = [pc EXCEPT ![t] = IF is_monitoring THEN "fetch" ELSE "finally"]
    /\ life' = [life EXCEPT ![t].query = IF is_monitoring THEN "none" ELSE @]
    /\ UNCHANGED <<fn, content, config, now, store, monitor, todo, inserted, sink_log, admitted,
                   skipped, owed, stop_called>>

\* stop_monitoring's body: the flag is cleared and the client, if any, closed.
StopEffect ==
    /\ is_monitoring' = FALSE
    /\ client' = IF client = "none" THEN "none" ELSE "closed"

\* finally: self.stop_monitoring()
Finally(t) ==
    /\ pc[t] = "finally"
    /\ StopEffect
    /\ pc' = [pc EXCEPT ![t] = "done"]
    /\ todo' = [todo EXCEPT ![t] = <<>>]
    /\ owed' = {}
    /\ UNCHANGED <<fn, content, config, now, store, last_check_time, processed_ids, stats, inserted,
                   sink_log, admitted, skipped, stop_called, life>>

\* stop_monitoring called by the owner of the instance from another thread
\* (run_background_example), at any point of the loop thread's progress.
StopMonitoring ==
    /\ \E t \in Threads : Live(t)
    /\ StopEffect
    /\ stop_called' = TRUE
    /\ owed' = {}
    /\ UNCHANGED <<fn, content, config, now, store, last_check_time, processed_ids, stats, pc, todo,
                   inserted, sink_log, admitted, skipped, life>>

\* KeyboardInterrupt raised in the thread that runs the loop inline. Inside the
\* try it reaches "except KeyboardInterrupt" and the finally; during connect(),
\* before the try, it leaves start_monitoring.
Interrupt(t) ==
    /\ pc[t] \in {"connect", "init", "check", "fetch", "process", "advance", "sleep"}
    /\ pc' = [pc EXCEPT ![t] = IF pc[t] = "connect" THEN "done" ELSE "finally"]
    /\ UNCHANGED <<fn, content, config, now, store, monitor, todo, history>>

\* ------------------------------------------------------------ poll cycle
\* Faulty variant: the query's exception not caught, ending the loop.
QueryErrorEndsLoop(v) == "finally"

\* except Exception in get_new_documents (of either class): return []. The
\* empty list takes poll_for_changes to the cursor update.
AfterQueryError(v) == "advance"

\* get_new_documents when the query (a find_one probe or the find) raises: the
\* exception is caught and the result is the empty list, so poll_for_changes
\* goes on to the cursor update.
QueryFails(t) ==
    /\ pc[t] = "fetch"
    /\ life' = [life EXCEPT ![t].polled = TRUE, ![t].query = "failed"]
    /\ todo' = [todo EXCEPT ![t] = <<>>]
    /\ pc' = [pc EXCEPT ![t] = AfterQueryError(variant)]
    /\ UNCHANGED <<fn, content, config, now, store, monitor, inserted, sink_log, admitted, skipped,
                   owed, stop_called>>

\* get_new_documents when the query answers: the query, the sort and limit, the
\* processed_ids filter. poll_for_changes then iterates the result reversed.
QueryAnswers(t) ==
    /\ pc[t] = "fetch"
    /\ life' = [life EXCEPT ![t].polled = TRUE, ![t].query = "ok"]
    /\ LET fetched == FetchNew(variant, store, filters, last_check_time)
           new == FilterNew(fetched, processed_ids)
       IN /\ processed_ids' = Remember(processed_ids, new)
          /\ todo' = [todo EXCEPT ![t] = ProcessingOrder(new)]
          /\ pc' = [pc EXCEPT ![t] = IF new = <<>> THEN "advance" ELSE "process"]
          /\ admitted' = IF new = <<>> THEN admitted ELSE Append(admitted, SeqIds(new))
    /\ UNCHANGED <<fn, content, config, now, store, client, is_monitoring, last_check_time, stats,
                   inserted, sink_log, skipped, owed, stop_called>>

GetNewDocuments(t) == QueryFails(t) \/ QueryAnswers(t)

\* MongoDBPollingMonitor.process_document: everything is inside try/except
\* Exception. Text, when extracted, is handed to copy_to_clipboard, which
\* returns ok. The result: the calls of the sink.
SinkCalls(d, ok) ==
    IF d.payload = "text" THEN <<[id |-> d.id, ok |-> ok]>> ELSE <<>>

\* EnhancedPollingMonitor.process_document after super().process_document:
\* documents_processed is incremented, the text is extracted a second time,
\* outside any try, and texts_copied incremented if there is text.
EnhancedStats(st, d) ==
    [st EXCEPT !.documents_processed = @ + 1,
               !.texts_copied = IF d.payload = "text" THEN @ + 1 ELSE @]

\* The exception of the second extraction leaves process_document.
Propagates(d) == variant = "enhanced" /\ d.payload = "raise"

\* Faulty variant: the exception not caught in poll_for_changes, reaching the
\* except and finally of start_monitoring.
PollErrorEndsLoop(d) == "finally"

\* except Exception in poll_for_changes: the error is logged, poll_for_changes
\* returns and start_monitoring goes on to time.sleep.
AfterPollError(d) == "sleep"

\* One iteration of "for document in reversed(new_documents)". An exception
\* leaving process_document is caught by poll_for_changes' except: the rest of
\* the batch and the cursor update are skipped.
ProcessDocument(t) ==
    /\ pc[t] = "process"
    /\ todo[t] # <<>>
    /\ LET d == Head(todo[t])
           rest == Tail(todo[t])
       IN /\ \E ok \in (IF d.payload = "text" THEN BOOLEAN ELSE {TRUE}) :
                sink_log' = sink_log \o SinkCalls(d, ok)
          /\ owed' = IF d.payload = "text" THEN owed \ {d.id} ELSE owed
          /\ stats' = IF variant = "enhanced" THEN EnhancedStats(stats, d) ELSE stats
          /\ IF Propagates(d)
             THEN /\ todo' = [todo EXCEPT ![t] = <<>>]
                  /\ skipped' = skipped \cup Ids(Range(rest))
                  /\ pc' = [pc EXCEPT ![t] = AfterPollError(d)]
             ELSE /\ todo' = [todo EXCEPT ![t] = rest]
                  /\ skipped' = skipped
                  /\ pc' = [pc EXCEPT ![t] = IF rest = <<>> THEN "advance" ELSE "process"]
    /\ UNCHANGED <<fn, content, config, now, store, client, is_monitoring, last_check_time,
                   processed_ids, inserted, admitted, stop_called, life>>

\* self.last_check_time = datetime.utcnow()
AdvanceCursor(t) ==
    /\ pc[t] = "advance"
    /\ last_check_time' = now
    /\ pc' = [pc EXCEPT ![t] = "sleep"]
    /\ UNCHANGED <<fn, content, config, now, store, client, is_monitoring, processed_ids, stats,
                   todo, history>>

\* time.sleep(self.poll_interval) returns; the clock advances through Tick.
Sleep(t) ==
    /\ pc[t] = "sleep"
    /\ pc' = [pc EXCEPT ![t] = "check"]
    /\ UNCHANGED <<fn, content, config, now, store, monitor, todo, history>>

\* -------------------------------------------------------- specifications
LoopStep(t) ==
    \/ Connect(t)
    \/ InitRun(t)
    \/ LoopCheck(t)
    \/ GetNewDocuments(t)
    \/ ProcessDocument(t)
    \/ AdvanceCursor(t)
    \/ Sleep(t)
    \/ Finally(t)

Next ==
    \/ Tick
    \/ Insert
    \/ StopMonitoring
    \/ \E t \in Threads : NoLiveLoop /\ StartMonitoring(t)
    \/ \E t \in Threads : Interrupt(t)
    \/ \E t \in Threads : LoopStep(t)

\* One loop per instance at a time (the caller's discipline), any number of
\* lifecycles, stop and interrupt at any point.
Spec == Init /\ [][Next]_vars

\* The most favourable run of one lifecycle: the store answers every query,
\* nobody stops or interrupts the monitor, and the loop thread keeps being
\* scheduled.
SteadyStep(t) ==
    \/ Connect(t)
    \/ InitRun(t)
    \/ LoopCheck(t)
    \/ QueryAnswers(t)
    \/ ProcessDocument(t)
    \/ AdvanceCursor(t)
    \/ Sleep(t)

SteadyNext ==
    \/ Tick
    \/ Insert
    \/ \E t \in Threads : pc[t] = "idle" /\ NoLiveLoop /\ StartMonitoring(t)
    \/ \E t \in Threads : SteadyStep(t)

SteadySpec ==
    Init /\ [][SteadyNext]_vars /\ \A t \in Threads : WF_vars(SteadyStep(t))

\* The program as it is, without the caller's discipline: start_monitoring and
\* start_monitoring_background test nothing before they run the loop, so a
\* start is possible whatever the other threads are doing. Steps of different
\* loop threads interleave at the granularity of the actions.
AnyStartNext ==
    \/ Tick
    \/ Insert
    \/ \E t \in Threads : StartMonitoring(t)
    \/ \E t \in Threads : SteadyStep(t)

AnyStartSpec == Init /\ [][AnyStartNext]_vars

\* preserve_code_formatting called on a text.
CallFormat ==
    /\ call.fn = "format" /\ ~returned.done
    /\ returned' = [done |-> TRUE, value |-> Some(PreserveCodeFormatting(call.arg))]
    /\ UNCHANGED <<call, content, config, now, store, monitor, pc, todo, history>>

\* extract_text_content called on a document.
CallExtract ==
    /\ call.fn = "extract" /\ ~returned.done
    /\ returned' = [done |-> TRUE, value |-> ExtractTextContent(call.arg)]
    /\ UNCHANGED <<call, content, config, now, store, monitor, pc, todo, history>>

\* The functions of the monitor applied on their own to each of their inputs,
\* on an instance as constructed.
FnInit ==
    /\ call \in {[fn |-> "format", arg |-> s] : s \in Texts}
                \cup {[fn |-> "extract", arg |-> doc] : doc \in Documents}
    /\ returned = Pending
    /\ content = <<>>
    /\ variant = "base" /\ filters = {}
    /\ now = T0 /\ store = {} /\ client = "none"
    /\ is_monitoring = FALSE /\ last_check_time = None /\ processed_ids = {}
    /\ stats = [documents_processed |-> 0, texts_copied |-> 0, start_time |-> None]
    /\ pc = [t \in Threads |-> "idle"]
    /\ todo = [t \in Threads |-> <<>>]
    /\ inserted = <<>> /\ sink_log = <<>> /\ admitted = <<>>
    /\ skipped = {} /\ owed = {} /\ stop_called = FALSE
    /\ life = [t \in Threads |-> NewLife]

FnNext ==
    \/ CallFormat
    \/ CallExtract

FnSpec == FnInit /\ [][FnNext]_vars

\* Faulty variant: the test written "if text_content is not None".
DeliversAnyResult(doc) ==
    IF ExtractTextContent(doc) = Absent THEN "none" ELSE "text"

\* What process_document's "if text_content:" makes of a document of known
\* fields: text to hand to the sink, or nothing.
PayloadOf(doc) ==
    IF ExtractTextContent(doc) \in {Absent, Some(<<>>)} THEN "none" ELSE "text"

\* Three documents inserted in this order, within the 5 seconds before the
\* monitor is started: one without text, one with 'code', one with an empty
\* 'text' and a longer 'notes'.
FirstId == ObjectId(T0, 1)
SecondId == ObjectId(T0, 2)
ThirdId == ObjectId(T0 + 1, 1)
PrintOne == <<"p", "r", "i", "n", "t", "(", "1", ")">>
NoteText == <<"a", " ", "l", "o", "n", "g", " ", "n", "o", "t", "e">>
NoTextDocs == {<<>>, <<<<"meta", StrV(ShortText)>>>>, <<<<"notes", IntV(7)>>>>}
NotedDocs ==
    UNION {{<<<<"text", StrV(<<>>)>>, <<"notes", StrV(n)>>>>,
            <<<<"notes", StrV(n)>>, <<"text", StrV(<<>>)>>>>} : n \in {NoteText, LongText}}

ScenarioInit ==
    /\ call = NoCall /\ returned = Pending
    /\ \E a \in NoTextDocs, c \in NotedDocs :
          content = (FirstId :> a) @@ (SecondId :> <<<<"code", StrV(PrintOne)>>>>)
                        @@ (ThirdId :> c)
    /\ variant \in {"base", "enhanced"}
    /\ filters \in {{}, {<<"type", "code">>}}
    /\ (variant = "base" => filters = {})
    /\ now = T0 + 1
    /\ store = {MkDoc(i, Shape(PayloadOf(content[i]), "code", "none")) :
                    i \in {FirstId, SecondId, ThirdId}}
    /\ inserted = <<FirstId, SecondId, ThirdId>>
    /\ client = "none"
    /\ is_monitoring = FALSE /\ last_check_time = None /\ processed_ids = {}
    /\ stats = [documents_processed |-> 0, texts_copied |-> 0, start_time |-> None]
    /\ pc = [t \in Threads |-> "idle"]
    /\ todo = [t \in Threads |-> <<>>]
    /\ sink_log = <<>> /\ admitted = <<>>
    /\ skipped = {} /\ owed = {} /\ stop_called = FALSE
    /\ life = [t \in Threads |-> NewLife]

\* The monitor is started once and left to run.
ScenarioNext ==
    \/ \E t \in Threads : pc[t] = "idle" /\ NoLiveLoop /\ StartMonitoring(t)
    \/ \E t \in Threads : SteadyStep(t)

ScenarioSpec == ScenarioInit /\ [][ScenarioNext]_vars

\* ---------------------------------------------------- history, as read back
SinkIds == [k \in 1..Len(sink_log) |-> sink_log[k].id]
Delivered(i) == \E k \in 1..Len(sink_log) : sink_log[k].id = i
SinkPos(i) == CHOOSE k \in 1..Len(sink_log) : sink_log[k].id = i
InsertPos(i) == CHOOSE k \in 1..Len(inserted) : inserted[k] = i

\* The places of the admission history (batch, index) holding identifier i.
AdmitPlaces(i) ==
    {p \in (1..Len(admitted)) \X (1..MaxDocs) :
        p[2] <= Len(admitted[p[1]]) /\ admitted[p[1]][p[2]] = i}
AdmitCount(i) == Cardinality(AdmitPlaces(i))
\* The admitting cycle of an identifier, as the index of its batch.
AdmitCycle(i) == CHOOSE b \in 1..Len(admitted) : \E p \in AdmitPlaces(i) : p[1] = b

\* The documents the query of the current cursor returns from the store.
Refetchable == Range(FetchNew(variant, store, filters, last_check_time))
\* The query is bounded by _id (_id is what every collection of the state has).
IdBounded == \A d \in store : d.ts = "none"

\* --------------------------------------------------------------- claims

\* C1: no record identifier is handed to the sink (copy_to_clipboard) more
\* than once, over any sequence of start, poll cycle and stop.
C1_AtMostOnceDelivery ==
    \A k, l \in 1..Len(sink_log) : k # l => sink_log[k].id # sink_log[l].id

\* C1 witness: a cycle has fetched, and its query returned again a record that
\* was handed to the sink in an earlier cycle.
C1_Witness ==
    \E t \in Threads : \E d \in store :
        /\ pc[t] = "process" /\ IdBounded
        /\ Delivered(d.id) /\ d \in Refetchable

\* C2: every record inserted while the monitor is Running whose extraction
\* yields a payload is eventually handed to the sink.
C2_NoPayloadLost ==
    \A i \in {ObjectId(sec, rest) : sec \in Times, rest \in 1..MaxRest} :
        (i \in owed) ~> Delivered(i)

\* C3: every identifier is admitted (returned by the filter and added to
\* processed_ids) exactly once however often it is fetched, and none leaves
\* processed_ids: the number of admissions of i is 1 if i is in processed_ids
\* and 0 otherwise.
C3_IdempotentAdmission ==
    \A i \in processed_ids \cup Ids(store) \cup UNION {Range(b) : b \in Range(admitted)} :
        AdmitCount(i) = IF i \in processed_ids THEN 1 ELSE 0

\* C3 witness: a cycle admitted a batch while its query also returned a record
\* admitted by an earlier batch, which the filter dropped.
C3_Witness ==
    \E t \in Threads : \E d \in store :
        /\ pc[t] = "process" /\ IdBounded /\ Len(admitted) >= 2
        /\ d \in Refetchable /\ d.id \in processed_ids
        /\ AdmitCount(d.id) = 1 /\ AdmitCycle(d.id) < Len(admitted)

\* C4 as claimed: of any two records handed to the sink, the one with the
\* smaller identifier is handed over first, also across cycles.
C4_IdOrderedDelivery ==
    \A k, l \in 1..Len(sink_log) : k < l => sink_log[k].id < sink_log[l].id

\* C4 amended: records are handed to the sink in the order of their admitting
\* cycles, and within one cycle in ascending identifier order.
C4_AdmissionOrderedDelivery ==
    \A k, l \in 1..Len(sink_log) :
        k < l =>
            \/ AdmitCycle(sink_log[k].id) < AdmitCycle(sink_log[l].id)
            \/ /\ AdmitCycle(sink_log[k].id) = AdmitCycle(sink_log[l].id)
               /\ sink_log[k].id < sink_log[l].id

\* C4 witness: a record with a smaller identifier was admitted by a later cycle
\* and handed to the sink after a record with a larger one.
C4_Witness ==
    \E k, l \in 1..Len(sink_log) :
        /\ k < l
        /\ sink_log[k].id > sink_log[l].id
        /\ AdmitCycle(sink_log[k].id) < AdmitCycle(sink_log[l].id)

\* C5: the records admitted in one cycle are processed, and those with a
\* payload handed to the sink, in ascending identifier order.
C5_InCycleAscending ==
    /\ \A t \in Threads : \A k, l \in 1..Len(todo[t]) :
          k < l => todo[t][k].id < todo[t][l].id
    /\ \A k, l \in 1..Len(sink_log) :
          (k < l /\ AdmitCycle(sink_log[k].id) = AdmitCycle(sink_log[l].id))
              => sink_log[k].id < sink_log[l].id

\* C5 witness: two records of one batch were handed to the sink, the one with
\* the smaller identifier first although it was inserted last.
C5_Witness ==
    \E k, l \in 1..Len(sink_log) :
        /\ k < l
        /\ AdmitCycle(sink_log[k].id) = AdmitCycle(sink_log[l].id)
        /\ sink_log[k].id < sink_log[l].id
        /\ InsertPos(sink_log[k].id) > InsertPos(sink_log[l].id)

\* C6: every poll cycle, whether it found records, found none or hit an error,
\* ends with the cursor not decreased and equal to the current time.
C6_CursorAdvancesEveryCycle ==
    [][\A t \in Threads :
          (pc[t] \in {"process", "advance"} /\ pc'[t] = "sleep")
              => (last_check_time' = now' /\ last_check_time' >= last_check_time)]_vars

\* C7: once stop_monitoring has been called, the loop leaves at the next cycle
\* boundary (the evaluation of "while self.is_monitoring") and begins no
\* further poll cycle.
C7_StopHonoured ==
    [][\A t \in Threads :
          (stop_called /\ pc[t] = "check" /\ pc'[t] # "check")
              => pc'[t] = "finally"]_vars

\* C8: when connect fails, start_monitoring returns without setting
\* is_monitoring, without initialising the cursor and without polling.
C8_ConnectFailureIsFatal ==
    \A t \in Threads :
        life[t].conn = "failed" =>
            /\ pc[t] = "done"
            /\ ~is_monitoring
            /\ ~life[t].entered /\ ~life[t].cursor_init /\ ~life[t].polled

\* C8 witness: a start whose connect failed, after an earlier lifecycle of the
\* same instance had run.
C8_Witness ==
    \E t \in Threads : life[t].conn = "failed" /\ last_check_time # None

\* C9: stats['texts_copied'] equals the number of sink calls that returned
\* success.
C9_CopiedCountsSuccesses ==
    variant = "enhanced" =>
        stats.texts_copied = Cardinality({k \in 1..Len(sink_log) : sink_log[k].ok})

\* C10: no failure while processing one record aborts the batch: no admitted
\* record is left unprocessed behind a failed one.
C10_FailureIsolation == skipped = {}

\* C11: a cycle whose query fails delivers nothing, admits nothing and leaves
\* processed_ids and is_monitoring as they were; the loop thread then goes on
\* through the cursor update and the sleep to the next loop test, and, not
\* stopped or interrupted, to the next cycle's query.
C11_QueryFailureRecoverable ==
    [][\A t \in Threads :
          /\ (life[t].query = "none" /\ life'[t].query = "failed")
                => /\ sink_log' = sink_log /\ admitted' = admitted
                   /\ processed_ids' = processed_ids
                   /\ is_monitoring' = is_monitoring
                   /\ todo'[t] = <<>> /\ pc'[t] = "advance"
          /\ (life[t].query = "failed" /\ pc'[t] # pc[t] /\ ~Interrupt(t))
                => \/ pc[t] = "advance" /\ pc'[t] = "sleep"
                   \/ pc[t] = "sleep" /\ pc'[t] = "check"
                   \/ pc[t] = "check" /\ is_monitoring /\ pc'[t] = "fetch"
                   \/ pc[t] = "check" /\ ~is_monitoring /\ pc'[t] = "finally"
                   \/ pc[t] = "finally" /\ pc'[t] = "done"
                   \/ pc[t] = "done" /\ pc'[t] = "connect"
      ]_vars

\* C11 witness: the query of the last cycle failed while the store held a
\* record its bound admits; the monitor is Running at the next loop test.
C11_Witness ==
    \E t \in Threads :
        /\ life[t].query = "failed" /\ pc[t] = "check" /\ Running
        /\ IdBounded /\ \E d \in store : d.id \notin processed_ids

\* The documents a query bounded by the cursor's ObjectId matches.
BoundedById(docs, flt, lct) ==
    {d \in docs : d.id > FromDatetime(lct) /\ \A p \in flt : d[p[1]] = p[2]}

\* C12: whenever the cursor is set, the fetch of either monitor is bounded by
\* the ObjectId derived from the cursor: it returns the newest FetchLimit of the
\* records whose _id is greater than that ObjectId, and no other record.
C12_FetchBoundById ==
    \A t \in Threads :
        (pc[t] = "fetch" /\ last_check_time # None) =>
            LET fetched == FetchNew(variant, store, filters, last_check_time)
            IN /\ Len(fetched) <= FetchLimit
               /\ \A k \in 1..Len(fetched) : fetched[k].id > FromDatetime(last_check_time)
               /\ fetched = Limit(SortDesc(BoundedById(store, filters, last_check_time)),
                                  FetchLimit)

\* C13: at most one loop of the instance is executing at any time, whatever
\* sequence of start_monitoring and start_monitoring_background calls is made.
C13_SingleLoop ==
    Cardinality({t \in Threads : Live(t)}) <= 1

\* C14: each start of the enhanced monitor resets the statistics: right after
\* the start both counters are 0 and start_time is the time of the start.
C14_StatsResetOnStart ==
    [][\A t \in Threads :
          (variant = "enhanced" /\ pc[t] \in {"idle", "done"} /\ pc'[t] = "connect")
              => stats' = [documents_processed |-> 0, texts_copied |-> 0,
                           start_time |-> now]]_vars

\* C15: the monitor leaves Running only by a step of stop_monitoring called
\* from outside or by an interrupt; no query failure and no exception of a
\* per-record step ends it.
C15_RunningEndsOnlyOnStop ==
    [][(Running /\ ~Running') => (StopMonitoring \/ \E t \in Threads : Interrupt(t))]_vars

\* C15 witness: the monitor is Running after a cycle in which a record's
\* extraction raised and a later cycle whose query failed.
C15_Witness ==
    \E t \in Threads : \E d \in store :
        /\ Running /\ pc[t] = "advance" /\ life[t].query = "failed"
        /\ d.payload = "raise" /\ d.id \in processed_ids

LineEnds(s) ==
    {k \in 1..Len(s) : s[k] \in LineBreaks /\ ~(s[k] = "\n" /\ k > 1 /\ s[k - 1] = "\r")}
EndLen(s, k) == IF s[k] = "\r" /\ k < Len(s) /\ s[k + 1] = "\n" THEN 2 ELSE 1
NthEnd(s, j) == CHOOSE k \in LineEnds(s) : Cardinality({m \in LineEnds(s) : m < k}) = j - 1
LineCount(s) ==
    Cardinality(LineEnds(s)) + (IF s = <<>> \/ s[Len(s)] \in LineBreaks THEN 0 ELSE 1)
LineOf(s, j) ==
    SubSeq(s, IF j = 1 THEN 1 ELSE NthEnd(s, j - 1) + EndLen(s, NthEnd(s, j - 1)),
              IF j <= Cardinality(LineEnds(s)) THEN NthEnd(s, j) - 1 ELSE Len(s))

\* The pieces of a text between its "\n" characters.
Newlines(s) == {k \in 1..Len(s) : s[k] = "\n"}
NthNewline(s, j) == CHOOSE k \in Newlines(s) : Cardinality({m \in Newlines(s) : m < k}) = j - 1
PieceOf(s, j) ==
    SubSeq(s, IF j = 1 THEN 1 ELSE NthNewline(s, j - 1) + 1,
              IF j <= Cardinality(Newlines(s)) THEN NthNewline(s, j) - 1 ELSE Len(s))

\* x is line without its trailing whitespace.
TrailingStripped(line, x) ==
    /\ Len(x) <= Len(line) /\ SubSeq(line, 1, Len(x)) = x
    /\ \A k \in (Len(x) + 1)..Len(line) : line[k] \in Whitespace
    /\ (x = <<>> \/ x[Len(x)] \notin Whitespace)

\* C19: preserve_code_formatting returns the lines of its input, each without
\* its trailing whitespace and with its leading whitespace, joined by one "\n"
\* each, nothing after the last line; the empty text gives the empty text.
C19_FormattingNormalization ==
    (call.fn = "format" /\ returned.done) =>
        LET in == call.arg
            out == returned.value[1]
        IN IF LineCount(in) = 0 THEN in = <<>> /\ out = <<>>
           ELSE /\ Cardinality(Newlines(out)) + 1 = LineCount(in)
                /\ \A j \in 1..LineCount(in) :
                      TrailingStripped(LineOf(in, j), PieceOf(out, j))

\* C19 witness: a text of several lines was formatted, a line lost trailing
\* whitespace and the first line kept its leading whitespace.
C19_Witness ==
    /\ call.fn = "format" /\ returned.done
    /\ LineCount(call.arg) >= 2
    /\ \E j \in 1..LineCount(call.arg) :
          LET line == LineOf(call.arg, j)
          IN /\ Len(line) >= 3
             /\ line[1] \in {" ", "\t"} /\ line[2] = "a" /\ line[3] \in {" ", "\t"}
             /\ PieceOf(returned.value[1], j) = <<line[1], "a">>

\* What the claims about extraction say of a document, read off by position.
NonEmptyValue(v) == v # StrV(<<>>) /\ v # IntV(0)
\* The positions of the alias list whose field holds a non-empty value.
AliasHits(doc) ==
    {k \in 1..Len(TextFields) :
        \E i \in 1..Len(doc) : doc[i][1] = TextFields[k] /\ NonEmptyValue(doc[i][2])}
\* The normalized value of the alias that comes first in the list.
FirstAliasText(doc) ==
    LET k == CHOOSE h \in AliasHits(doc) : \A m \in AliasHits(doc) : h <= m
        i == CHOOSE j \in 1..Len(doc) : doc[j][1] = TextFields[k]
    IN Some(PreserveCodeFormatting(PyStr(doc[i][2])))
\* The fields holding a string of more than 10 characters.
LongStrings(doc) == {i \in 1..Len(doc) : doc[i][2].kind = "str" /\ Len(doc[i][2].s) > 10}
FirstOf(positions) == CHOOSE i \in positions : \A j \in positions : i <= j

\* C18 as claimed: a record with non-empty alias values yields the normalized
\* value of the first alias of the list; a record with only non-alias fields
\* yields its first string value longer than 10 characters, or None.
C18_ExtractionPriority ==
    (call.fn = "extract" /\ returned.done) =>
        LET doc == call.arg
        IN /\ AliasHits(doc) # {} => returned.value = FirstAliasText(doc)
           /\ (\A i \in 1..Len(doc) : doc[i][1] \notin Aliases) =>
                 returned.value =
                     IF LongStrings(doc) = {} THEN Absent
                     ELSE Some(PreserveCodeFormatting(doc[FirstOf(LongStrings(doc))][2].s))

\* The extraction of a document without nested documents, as amended.
FlatYield(doc) ==
    LET long == {i \in LongStrings(doc) : ~Underscored(doc[i][1])}
    IN IF AliasHits(doc) # {} THEN FirstAliasText(doc)
       ELSE IF long = {} THEN Absent
       ELSE Some(PreserveCodeFormatting(doc[FirstOf(long)][2].s))
\* The fields the scan can stop at: not reserved, and a long string or a nested
\* document yielding a non-empty text.
Yielding(doc) ==
    {i \in 1..Len(doc) :
        /\ ~Underscored(doc[i][1])
        /\ \/ i \in LongStrings(doc)
           \/ /\ doc[i][2].kind = "doc"
              /\ FlatYield(doc[i][2].fields) \notin {Absent, Some(<<>>)}}

\* C18 amended: a record with non-empty alias values yields the normalized
\* value of the first alias of the list; any other record yields what the first
\* of its fields, in the record's order and leaving out names beginning with
\* "_", gives that is a string longer than 10 characters (normalized) or a
\* nested record with a non-empty extraction (that extraction), or None.
C18_ExtractionPriorityAndScan ==
    (call.fn = "extract" /\ returned.done) =>
        LET doc == call.arg
        IN returned.value =
              IF AliasHits(doc) # {} THEN FirstAliasText(doc)
              ELSE IF Yielding(doc) = {} THEN Absent
              ELSE LET v == doc[FirstOf(Yielding(doc))][2]
                   IN IF v.kind = "str" THEN Some(PreserveCodeFormatting(v.s))
                      ELSE FlatYield(v.fields)

\* C18 witness: a record without alias fields, its first field a long string
\* under a name beginning with "_", its second a nested record; the extraction
\* is the nested record's text.
C18_Witness ==
    /\ call.fn = "extract" /\ returned.done
    /\ call.arg = <<<<"_note", StrV(LongText)>>,
                    <<"meta", DocV(<<<<"text", StrV(ShortText)>>>>)>>>>
    /\ returned.value = Some(ShortText)

\* The texts handed to the sink: process_document passes on what
\* extract_text_content returned for the document.
SinkTexts == [k \in 1..Len(sink_log) |-> ExtractTextContent(content[sink_log[k].id])[1]]

\* C17: with the three documents in the collection, the first poll cycle hands
\* to the sink exactly the 'code' text of the second and then the 'notes' text
\* of the third, nothing for the first; the enhanced monitor then counts 3
\* documents processed, 2 of them with text and 1 without.
C17_EndToEndScenario ==
    (\E t \in Threads : life[t].query = "ok" /\ pc[t] \in {"advance", "sleep", "check"})
        => /\ SinkIds = <<SecondId, ThirdId>>
           /\ SinkTexts = <<PrintOne, PreserveCodeFormatting(Get(content[ThirdId], "notes").s)>>
           /\ variant = "enhanced" =>
                 /\ stats.texts_copied = 2
                 /\ stats.documents_processed - stats.texts_copied = 1

\* C17 witness: the enhanced monitor has completed the cycle on the three
\* documents, both sink calls having succeeded.
C17_Witness ==
    /\ variant = "enhanced" /\ DOMAIN content = {FirstId, SecondId, ThirdId}
    /\ \E t \in Threads : life[t].query = "ok" /\ pc[t] = "sleep"
    /\ Len(sink_log) = 2 /\ \A k \in 1..Len(sink_log) : sink_log[k].ok
    /\ stats.documents_processed = 3

\* The identifiers whose hand-over to the sink failed.
FailedIds == {sink_log[k].id : k \in {l \in 1..Len(sink_log) : ~sink_log[l].ok}}

\* C20: an identifier is in processed_ids from the fetch that admitted it,
\* before its record is processed: every record waiting in a batch and every
\* record handed to the sink is in processed_ids; and a record whose hand-over
\* failed, or that was left out when its batch was aborted, was admitted once
\* and is in no later batch and no further sink call.
C20_NoRetryAfterAdmission ==
    /\ \A t \in Threads : \A k \in 1..Len(todo[t]) : todo[t][k].id \in processed_ids
    /\ \A k \in 1..Len(sink_log) : sink_log[k].id \in processed_ids
    /\ \A i \in FailedIds \cup skipped :
          /\ i \in processed_ids /\ AdmitCount(i) = 1
          /\ \A t \in Threads : \A k \in 1..Len(todo[t]) : todo[t][k].id # i
          /\ Cardinality({k \in 1..Len(sink_log) : sink_log[k].id = i})
                = IF i \in FailedIds THEN 1 ELSE 0

\* C20 witness: a later cycle has fetched again a record whose hand-over to the
\* sink had failed, and admitted only another record.
C20_Witness ==
    \E t \in Threads : \E d \in store :
        /\ pc[t] = "process" /\ IdBounded
        /\ d.id \in FailedIds /\ d \in Refetchable
        /\ AdmitCycle(d.id) < Len(admitted)

\* A text of nothing but whitespace on at most one line.
BlankLine(s) == LineCount(s) <= 1 /\ \A k \in 1..Len(s) : s[k] \in Whitespace

\* The value extraction takes its result from, as a str: the first non-empty
\* alias value or else the first yielding field, when that is a string.
TakenText(doc) ==
    IF AliasHits(doc) # {}
    THEN LET k == FirstOf(AliasHits(doc))
         IN Some(PyStr(doc[CHOOSE j \in 1..Len(doc) : doc[j][1] = TextFields[k]][2]))
    ELSE IF Yielding(doc) # {} /\ doc[FirstOf(Yielding(doc))][2].kind = "str"
    THEN Some(doc[FirstOf(Yielding(doc))][2].s)
    ELSE Absent

\* C21 as claimed: extract_text_content returns None or a non-empty string, so
\* process_document hands every result that is not None to the sink.
C21_ExtractionNeverEmpty ==
    (call.fn = "extract" /\ returned.done) =>
        /\ returned.value # Some(<<>>)
        /\ (returned.value # Absent => PayloadOf(call.arg) = "text")

\* C21 amended: extract_text_content returns None, a non-empty string, or the
\* empty string; the empty string exactly when the value it takes its result
\* from is whitespace on at most one line, which preserve_code_formatting
\* turns into the empty string; process_document hands to the sink exactly
\* the results that are non-empty strings.
C21_EmptyOnlyFromBlank ==
    /\ (call.fn = "format" /\ returned.done) =>
          (returned.value = Some(<<>>) <=> BlankLine(call.arg))
    /\ (call.fn = "extract" /\ returned.done) =>
          /\ Len(returned.value) <= 1
          /\ returned.value = Some(<<>>)
                <=> (TakenText(call.arg) # Absent /\ BlankLine(TakenText(call.arg)[1]))
          /\ PayloadOf(call.arg) = "text"
                <=> (returned.value # Absent /\ returned.value # Some(<<>>))

\* C21 witness: a record whose first alias field holds a blank and whose next
\* alias field holds text; the extraction is the empty string and nothing is
\* handed to the sink.
C21_Witness ==
    /\ call.fn = "extract" /\ returned.done
    /\ call.arg = <<<<"code", StrV(ShortText)>>, <<"text", StrV(BlankText)>>>>
    /\ returned.value = Some(<<>>)
    /\ PayloadOf(call.arg) = "none"

====
